---- MODULE Spec2Model ----
(***************************************************************************)
(* Model of AppsyncApiRouter (src/lib/index.ts, src/lib/utils.ts): the     *)
(* convention-based discovery of unit resolvers and pipeline resolvers     *)
(* from a directory snapshot, one registration call per data source.       *)
(*                                                                         *)
(* Strings are sequences of one-character strings, so that the regular     *)
(* expressions, endsWith, parseInt and the identifier templates of the     *)
(* source are computed character by character.                             *)
(***************************************************************************)
EXTENDS Integers, Sequences, FiniteSets, TLC

VARIABLES
    resolverEntries,    \* this.resolverEntries: the snapshot taken by prepResolverDirectory
    disk,               \* paths of the files that exist on disk now (fs.existsSync)
    constructs,         \* children of the api scope, in creation order (the resource graph)
    unitResolvers,      \* this.unitResolvers: "Type.field" -> Resolver handle
    pipelineResolvers,  \* this.pipelineResolvers: "Type.field" -> {resolver, fns}
    calls               \* history of the registration calls: <<[ds, err]>>, err the
                        \* error the call threw (kind "none" when it returned)

vars == <<resolverEntries, disk, constructs, unitResolvers, pipelineResolvers, calls>>

-----------------------------------------------------------------------------
(* Bounds *)

MaxEntries == 3      \* entries in the directory snapshot
MaxCalls == 2        \* data-source registration calls
MaxDiskChanges == 1  \* files removed from disk after the snapshot was taken
MaxApiCalls == 1     \* calls of the explicit operations (createJsResolver, ...)
MaxFlatFiles == 2    \* files on disk when the explicit operations are called

-----------------------------------------------------------------------------
(* Characters and strings *)

LowerCase == <<"a","b","c","d","e","f","g","h","i","j","k","l","m",
               "n","o","p","q","r","s","t","u","v","w","x","y","z">>
UpperCase == <<"A","B","C","D","E","F","G","H","I","J","K","L","M",
               "N","O","P","Q","R","S","T","U","V","W","X","Y","Z">>
DecDigits == <<"0","1","2","3","4","5","6","7","8","9">>

Range(s) == {s[i] : i \in DOMAIN s}

\* [_A-Za-z]
IdentStartChars == {"_"} \cup Range(LowerCase) \cup Range(UpperCase)
\* \d
DigitChars == Range(DecDigits)
\* [_0-9A-Za-z], which is also \w
WordChars == IdentStartChars \cup DigitChars

IsIdentStart(c) == c \in IdentStartChars
IsDigit(c) == c \in DigitChars
IsWordChar(c) == c \in WordChars

InClass(cls, c) == IF cls = "digit" THEN IsDigit(c) ELSE IsWordChar(c)

\* the character class [ts|js] of the discovery filters: ONE character of t, s, |, j
ExtClass == {"t", "s", "|", "j"}

CharAt(s, i) == IF i \in 1..Len(s) THEN s[i] ELSE ""

\* index after the longest run of characters of class cls that starts at i
RECURSIVE RunEnd(_, _, _)
RunEnd(s, i, cls) ==
    IF i > Len(s) THEN i
    ELSE IF InClass(cls, s[i]) THEN RunEnd(s, i + 1, cls) ELSE i

\* String.prototype.endsWith
endsWith(s, suffix) ==
    /\ Len(suffix) <= Len(s)
    /\ SubSeq(s, Len(s) - Len(suffix) + 1, Len(s)) = suffix

\* path.join(a, b)
pathJoin(a, b) == a \o <<"/">> \o b

\* `${typeName}.${fieldName}`
fieldKey(typeName, fieldName) == typeName \o <<".">> \o fieldName

\* String.prototype.toUpperCase on one character
toUpperCase(c) ==
    IF c \in Range(LowerCase)
    THEN UpperCase[CHOOSE i \in DOMAIN LowerCase : LowerCase[i] = c]
    ELSE c

\* parseInt on a string of decimal digits
RECURSIVE parseInt(_)
parseInt(digits) ==
    IF digits = <<>> THEN 0
    ELSE 10 * parseInt(SubSeq(digits, 1, Len(digits) - 1))
         + ((CHOOSE i \in DOMAIN DecDigits : DecDigits[i] = digits[Len(digits)]) - 1)

\* /\.(js|ts)$/
hasSourceExtension(file) ==
    \/ endsWith(file, <<".", "j", "s">>)
    \/ endsWith(file, <<".", "t", "s">>)

-----------------------------------------------------------------------------
(* The discovery filters.  They are not anchored: String.prototype.match    *)
(* returns the leftmost match, and each quantifier is followed by a         *)
(* character outside its class, so a run is always taken whole.             *)

\* /([_A-Za-z][_0-9A-Za-z]*)\.([_A-Za-z][_0-9A-Za-z]*)\.\[(\w+)\]\.[ts|js]/ at index i
unitFilterAt(s, i) ==
    LET e1 == RunEnd(s, i, "word")
        e2 == RunEnd(s, e1 + 1, "word")
        e3 == RunEnd(s, e2 + 2, "word")
    IN  [ok |-> /\ IsIdentStart(CharAt(s, i))
                /\ CharAt(s, e1) = "."
                /\ IsIdentStart(CharAt(s, e1 + 1))
                /\ CharAt(s, e2) = "."
                /\ CharAt(s, e2 + 1) = "["
                /\ e3 > e2 + 2
                /\ CharAt(s, e3) = "]"
                /\ CharAt(s, e3 + 1) = "."
                /\ CharAt(s, e3 + 2) \in ExtClass,
         typeName |-> SubSeq(s, i, e1 - 1),
         fieldName |-> SubSeq(s, e1 + 1, e2 - 1),
         dataSourceName |-> SubSeq(s, e2 + 2, e3 - 1)]

RECURSIVE unitFilterFrom(_, _)
unitFilterFrom(s, i) ==
    IF i > Len(s) THEN [ok |-> FALSE, typeName |-> <<>>, fieldName |-> <<>>,
                        dataSourceName |-> <<>>]
    ELSE LET m == unitFilterAt(s, i) IN IF m.ok THEN m ELSE unitFilterFrom(s, i + 1)

\* entry.name.match(fileFilter) in loadResolversForDataSource
unitFileFilter(name) == unitFilterFrom(name, 1)

\* /([_A-Za-z][_0-9A-Za-z]*)\.([_A-Za-z][_0-9A-Za-z]*)/ at index i
dirFilterAt(s, i) ==
    LET e1 == RunEnd(s, i, "word")
        e2 == RunEnd(s, e1 + 1, "word")
    IN  [ok |-> /\ IsIdentStart(CharAt(s, i))
                /\ CharAt(s, e1) = "."
                /\ IsIdentStart(CharAt(s, e1 + 1)),
         typeName |-> SubSeq(s, i, e1 - 1),
         fieldName |-> SubSeq(s, e1 + 1, e2 - 1)]

RECURSIVE dirFilterFrom(_, _)
dirFilterFrom(s, i) ==
    IF i > Len(s) THEN [ok |-> FALSE, typeName |-> <<>>, fieldName |-> <<>>]
    ELSE LET m == dirFilterAt(s, i) IN IF m.ok THEN m ELSE dirFilterFrom(s, i + 1)

\* entry.name.match(dirFilter) in loadResolversForDataSource
dirFilter(name) == dirFilterFrom(name, 1)

\* /(\d+)\.([_A-Za-z][_0-9A-Za-z]*)\.\[(\w+)\]\.[ts|js]/ at index i
stageFilterAt(s, i) ==
    LET e1 == RunEnd(s, i, "digit")
        e2 == RunEnd(s, e1 + 1, "word")
        e3 == RunEnd(s, e2 + 2, "word")
    IN  [ok |-> /\ IsDigit(CharAt(s, i))
                /\ CharAt(s, e1) = "."
                /\ IsIdentStart(CharAt(s, e1 + 1))
                /\ CharAt(s, e2) = "."
                /\ CharAt(s, e2 + 1) = "["
                /\ e3 > e2 + 2
                /\ CharAt(s, e3) = "]"
                /\ CharAt(s, e3 + 1) = "."
                /\ CharAt(s, e3 + 2) \in ExtClass,
         order |-> SubSeq(s, i, e1 - 1),
         name |-> SubSeq(s, e1 + 1, e2 - 1),
         dataSourceName |-> SubSeq(s, e2 + 2, e3 - 1)]

RECURSIVE stageFilterFrom(_, _)
stageFilterFrom(s, i) ==
    IF i > Len(s) THEN [ok |-> FALSE, order |-> <<>>, name |-> <<>>,
                        dataSourceName |-> <<>>]
    ELSE LET m == stageFilterAt(s, i) IN IF m.ok THEN m ELSE stageFilterFrom(s, i + 1)

\* entry.name.match(fileFilter) in loadFunctions
stageFileFilter(name) == stageFilterFrom(name, 1)

ResolverDot == <<"r","e","s","o","l","v","e","r",".">>

\* ent.name.match(/(resolver)\.[ts|js]/) in loadPipelineResolver
wrapperFileFilter(name) ==
    \E i \in 1..Len(name) :
        /\ i + Len(ResolverDot) <= Len(name)
        /\ SubSeq(name, i, i + Len(ResolverDot) - 1) = ResolverDot
        /\ name[i + Len(ResolverDot)] \in ExtClass

-----------------------------------------------------------------------------
(* Identifier templates *)

ResolverSuffix == <<"R","e","s","o","l","v","e","r">>

\* `${typeName}${fieldName[0].toUpperCase() + fieldName.slice(1)}Resolver`
getResolverName(typeName, fieldName) ==
    typeName \o <<toUpperCase(fieldName[1])>> \o Tail(fieldName) \o ResolverSuffix

\* `${typeName}_${fieldName}_resolver`
defaultPipelineResolverId(typeName, fieldName) ==
    typeName \o <<"_">> \o fieldName \o <<"_","r","e","s","o","l","v","e","r">>

\* `${typeName}_${fieldName}_${dataSourceName}_${name}`
stageFunctionId(typeName, fieldName, dataSourceName, name) ==
    typeName \o <<"_">> \o fieldName \o <<"_">> \o dataSourceName \o <<"_">> \o name

\* the generated pass-through wrapper: what request and response return
DEFAULT_PIPELINE_RESOLVER_CODE ==
    [kind |-> "inline", request |-> "{}", response |-> "ctx.prev.result", src |-> <<>>]

\* doBundling(entryFile, {}): a code asset addressed by the entry file
doBundling(entryFile) ==
    [kind |-> "asset", request |-> "", response |-> "", src |-> entryFile]

-----------------------------------------------------------------------------
(* Errors and the state a handler threads through its statements.  st.err   *)
(* is the exception in flight: once set, the remaining statements and loop  *)
(* iterations of the call are skipped.  An error records its kind, the file *)
(* or construct id it is about, and where it was thrown: the field key and  *)
(* the creating method (via).                                               *)

NoError == [kind |-> "none", at |-> <<>>, key |-> <<>>, via |-> ""]

Throw(st, kind, at, key, via) ==
    [st EXCEPT !.err = [kind |-> kind, at |-> at, key |-> key, via |-> via]]

Failed(st) == st.err.kind # "none"

\* fs.existsSync
existsSync(file) == file \in disk

ConstructIds(cs) == {cs[i].id : i \in DOMAIN cs}

\* new Resolver(this, id, ...) / new AppsyncFunction(this, id, ...): the construct
\* is added to the children of the api scope, and the construct tree throws
\* ("There is already a Construct with name ...") when the scope already has a
\* child of that id.  A handle is the index of the construct.
\* c.key, c.via and c.call are history: the field, the creating method, the call.
NewConstruct(st, c) ==
    IF c.id \in ConstructIds(st.constructs)
    THEN Throw(st, "DuplicateConstruct", c.id, c.key, c.via)
    ELSE [st EXCEPT !.constructs = Append(@, c)]

\* the frames of the call stack above the find* function, innermost first:
\* a public method called by the application file
Frames(method, file) ==
    <<[fn |-> method, file |-> <<"l","i","b">>], [fn |-> "main", file |-> file]>>

\* findDefiningFile(functionName): the file of the frame that called the first
\* frame named functionName, <<>> standing for 'Cannot find defining file.'
RECURSIVE findDefiningFileFrom(_, _, _)
findDefiningFileFrom(functionName, sites, index) ==
    IF index > Len(sites) THEN <<>>
    ELSE IF sites[index].fn = functionName
    THEN (IF index + 1 \in DOMAIN sites THEN sites[index + 1].file ELSE <<>>)
    ELSE findDefiningFileFrom(functionName, sites, index + 1)

findDefiningFile(functionName, sites) == findDefiningFileFrom(functionName, sites, 1)

\* path.dirname
RECURSIVE dirname(_)
dirname(p) ==
    IF p = <<>> THEN <<".">>
    ELSE IF p[Len(p)] = "/" THEN SubSeq(p, 1, Len(p) - 1)
    ELSE dirname(SubSeq(p, 1, Len(p) - 1))

DotTs == <<".", "t", "s">>
DotJs == <<".", "j", "s">>
CommaOr == <<",", " ", "o", "r", " ">>

\* mutant: the .js file is preferred
findTsThenJs_JsFirst(tsFile, jsFile) ==
    IF existsSync(jsFile) THEN [err |-> "none", entryFile |-> jsFile]
    ELSE IF existsSync(tsFile) THEN [err |-> "none", entryFile |-> tsFile]
    ELSE [err |-> "EntryNotFound", entryFile |-> tsFile \o CommaOr \o jsFile]

\* the last two steps of findResolverEntry and findFunctionEntry: the .ts file,
\* then the .js file, then the error that names both
findTsThenJs(tsFile, jsFile) ==
    IF existsSync(tsFile) THEN [err |-> "none", entryFile |-> tsFile]
    ELSE IF existsSync(jsFile) THEN [err |-> "none", entryFile |-> jsFile]
    ELSE [err |-> "EntryNotFound", entryFile |-> tsFile \o CommaOr \o jsFile]

\* mutant: the explicit file is looked up before its extension is checked
findResolverEntry_ExistsFirst(typeName, fieldName, resolverFile, resolverDir, sites) ==
    IF resolverFile # <<>>
    THEN IF ~existsSync(resolverFile)
         THEN [err |-> "FileNotFound", entryFile |-> resolverFile]
         ELSE IF ~hasSourceExtension(resolverFile)
         THEN [err |-> "InvalidExtension", entryFile |-> resolverFile]
         ELSE [err |-> "none", entryFile |-> resolverFile]
    ELSE findTsThenJs(pathJoin(resolverDir, fieldKey(typeName, fieldName) \o DotTs),
                      pathJoin(resolverDir, fieldKey(typeName, fieldName) \o DotJs))

\* findResolverEntry(typeName, fieldName, resolverFile, resolverDir); <<>> is an
\* option that was not given, sites the call stack findDefiningFile walks
findResolverEntry(typeName, fieldName, resolverFile, resolverDir, sites) ==
    IF resolverFile # <<>>
    THEN IF ~hasSourceExtension(resolverFile)
         THEN [err |-> "InvalidExtension", entryFile |-> resolverFile]
         ELSE IF ~existsSync(resolverFile)
         THEN [err |-> "FileNotFound", entryFile |-> resolverFile]
         ELSE [err |-> "none", entryFile |-> resolverFile]
    ELSE IF resolverDir # <<>>
    THEN findTsThenJs(pathJoin(resolverDir, fieldKey(typeName, fieldName) \o DotTs),
                      pathJoin(resolverDir, fieldKey(typeName, fieldName) \o DotJs))
    ELSE IF findDefiningFile("createJsResolver", sites) = <<>>
    THEN [err |-> "AmbiguousOrigin", entryFile |-> <<>>]
    ELSE findTsThenJs(
            pathJoin(pathJoin(dirname(findDefiningFile("createJsResolver", sites)),
                              <<"r","e","s","o","l","v","e","r","s">>),
                     fieldKey(typeName, fieldName) \o DotTs),
            pathJoin(pathJoin(dirname(findDefiningFile("createJsResolver", sites)),
                              <<"r","e","s","o","l","v","e","r","s">>),
                     fieldKey(typeName, fieldName) \o DotJs))

\* /\.\w+$/.test(name)
hasExtension(name) ==
    \E i \in 1..(Len(name) - 1) :
        /\ name[i] = "."
        /\ \A j \in (i + 1)..Len(name) : IsWordChar(name[j])

\* the file names findFunctionEntry tries in dir
findFunctionIn(dir, name) ==
    IF hasExtension(name)
    THEN IF ~hasSourceExtension(name)
         THEN [err |-> "InvalidExtension", entryFile |-> name]
         ELSE findTsThenJs(pathJoin(dir, name), pathJoin(dir, name))
    ELSE findTsThenJs(pathJoin(dir, name \o DotTs), pathJoin(dir, name \o DotJs))

\* findFunctionEntry(name, functionFile, functionDir)
findFunctionEntry(name, functionFile, functionDir, sites) ==
    IF functionFile # <<>>
    THEN IF ~hasSourceExtension(functionFile)
         THEN [err |-> "InvalidExtension", entryFile |-> functionFile]
         ELSE IF ~existsSync(functionFile)
         THEN [err |-> "FileNotFound", entryFile |-> functionFile]
         ELSE [err |-> "none", entryFile |-> functionFile]
    ELSE IF functionDir # <<>>
    THEN findFunctionIn(functionDir, name)
    ELSE IF findDefiningFile("createJsPipelineResolver", sites) = <<>>
    THEN [err |-> "AmbiguousOrigin", entryFile |-> <<>>]
    ELSE findFunctionIn(
            pathJoin(dirname(findDefiningFile("createJsPipelineResolver", sites)),
                     <<"f","u","n","c","t","i","o","n","s">>),
            name)

\* new Resolver(this, getResolverName(typeName, fieldName), {dataSource, code})
\* with the code bundled from the entry e that was found, or e's error rethrown
newResolver(st, e, dataSource, typeName, fieldName, via) ==
    IF e.err # "none"
    THEN Throw(st, e.err, e.entryFile, fieldKey(typeName, fieldName), via)
    ELSE NewConstruct(st,
            [id |-> getResolverName(typeName, fieldName), type |-> "Resolver",
             typeName |-> typeName, fieldName |-> fieldName,
             dataSource |-> dataSource, code |-> doBundling(e.entryFile),
             kind |-> "UNIT", functions |-> <<>>,
             key |-> fieldKey(typeName, fieldName), via |-> via, call |-> st.call])

\* props of createJsResolver and createJsFunction: the entry file and the entry
\* directory, <<>> for an option that is not given
FileProps(file) == [file |-> file, dir |-> <<>>]

\* mutant: the resolver is named after the field and the data source
createJsResolver_IdPerDataSource(st, dataSource, typeName, fieldName, props) ==
    newResolver(st, findResolverEntry(typeName, fieldName, props.file, props.dir, st.sites),
                dataSource, typeName, fieldName \o dataSource, "createJsResolver")

\* mutant: resolverFile and resolverDir are not compared
createJsResolver_NoConflictCheck(st, dataSource, typeName, fieldName, props) ==
    newResolver(st, findResolverEntry(typeName, fieldName, props.file, props.dir, st.sites),
                dataSource, typeName, fieldName, "createJsResolver")

\* createJsResolver(dataSource, typeName, fieldName, {resolverFile, resolverDir})
createJsResolver(st, dataSource, typeName, fieldName, props) ==
    IF props.file # <<>> /\ props.dir # <<>>
    THEN Throw(st, "ConflictingOptions", <<>>, fieldKey(typeName, fieldName),
               "createJsResolver")
    ELSE newResolver(st, findResolverEntry(typeName, fieldName, props.file, props.dir,
                                           st.sites),
                     dataSource, typeName, fieldName, "createJsResolver")

\* new AppsyncFunction(this, name, {dataSource, name, code}); key is the field the
\* stage is loaded for
newAppsyncFunction(st, e, dataSource, name, key) ==
    IF e.err # "none"
    THEN Throw(st, e.err, e.entryFile, key, "createJsFunction")
    ELSE NewConstruct(st,
            [id |-> name, type |-> "AppsyncFunction",
             typeName |-> <<>>, fieldName |-> <<>>,
             dataSource |-> dataSource, code |-> doBundling(e.entryFile),
             kind |-> "", functions |-> <<>>,
             key |-> key, via |-> "createJsFunction", call |-> st.call])

\* createJsFunction(dataSource, name, {functionFile, functionDir})
createJsFunction(st, dataSource, name, props, key) ==
    IF props.file # <<>> /\ props.dir # <<>>
    THEN Throw(st, "ConflictingOptions", <<>>, key, "createJsFunction")
    ELSE newAppsyncFunction(st, findFunctionEntry(name, props.file, props.dir, st.sites),
                            dataSource, name, key)

\* dataSource.createJsFunction(id, {functionFile}): the data source's method,
\* which creates the function on the api as createJsFunction does
dataSourceCreateJsFunction(st, dataSource, id, functionFile, key) ==
    createJsFunction(st, dataSource, id, FileProps(functionFile), key)

\* this.createJsPipelineResolver(typeName, fieldName, {resolverFile}): resolves the
\* wrapper file as findResolverEntry does and creates the resolver without a
\* data source, under the resolver name
createJsPipelineResolver(st, typeName, fieldName, resolverFile) ==
    newResolver(st, findResolverEntry(typeName, fieldName, resolverFile, <<>>, st.sites),
                <<>>, typeName, fieldName, "createJsPipelineResolver")

-----------------------------------------------------------------------------
(* Discovery.  A handler is a composition of steps over st; st.ret carries   *)
(* the list a loop builds or a function returns, st.conf the local conf.     *)

\* Array.prototype.sort((a, b) => a.order - b.order): a stable sort; x is put
\* after every element whose order is not greater than its own
\* mutant: the comparator reversed (b.order - a.order)
RECURSIVE insertByOrder_Descending(_, _)
insertByOrder_Descending(sorted, x) ==
    IF sorted = <<>> THEN <<x>>
    ELSE IF x.order - sorted[Len(sorted)].order <= 0 THEN Append(sorted, x)
    ELSE Append(insertByOrder_Descending(SubSeq(sorted, 1, Len(sorted) - 1), x),
                sorted[Len(sorted)])

\* mutant: an unstable sort, x is put before the elements of equal order
RECURSIVE insertByOrder_BeforeEqual(_, _)
insertByOrder_BeforeEqual(sorted, x) ==
    IF sorted = <<>> THEN <<x>>
    ELSE IF sorted[Len(sorted)].order - x.order < 0 THEN Append(sorted, x)
    ELSE Append(insertByOrder_BeforeEqual(SubSeq(sorted, 1, Len(sorted) - 1), x),
                sorted[Len(sorted)])

RECURSIVE insertByOrder(_, _)
insertByOrder(sorted, x) ==
    IF sorted = <<>> THEN <<x>>
    ELSE IF sorted[Len(sorted)].order - x.order <= 0 THEN Append(sorted, x)
    ELSE Append(insertByOrder(SubSeq(sorted, 1, Len(sorted) - 1), x), sorted[Len(sorted)])

RECURSIVE sortByOrder(_)
sortByOrder(fns) ==
    IF fns = <<>> THEN <<>>
    ELSE insertByOrder(sortByOrder(SubSeq(fns, 1, Len(fns) - 1)), fns[Len(fns)])

\* fns.push({ order: parseInt(order), fn })
pushFn(made, order) ==
    IF Failed(made) THEN made
    ELSE [made EXCEPT !.ret = Append(@, [order |-> parseInt(order),
                                         fn |-> Len(made.constructs)])]

\* the body of the entries.forEach of loadFunctions for an entry of the field
loadStage(st, entry, match, typeName, fieldName, dataSource) ==
    IF match.ok /\ match.dataSourceName = dataSource
    THEN pushFn(dataSourceCreateJsFunction(st, dataSource,
                    stageFunctionId(typeName, fieldName, match.dataSourceName, match.name),
                    pathJoin(entry.path, entry.name),
                    fieldKey(typeName, fieldName)),
                match.order)
    ELSE st

\* the filter of loadFunctions: the files whose directory path ends with the key
isFieldFile(ent, typeName, fieldName) ==
    ~ent.isDir /\ endsWith(ent.path, fieldKey(typeName, fieldName))

\* the entries.forEach of loadFunctions, from entry i on
RECURSIVE loadFunctionsFrom(_, _, _, _, _)
loadFunctionsFrom(st, i, typeName, fieldName, dataSource) ==
    IF Failed(st) \/ i > Len(resolverEntries) THEN st
    ELSE loadFunctionsFrom(
            IF isFieldFile(resolverEntries[i], typeName, fieldName)
            THEN loadStage(st, resolverEntries[i], stageFileFilter(resolverEntries[i].name),
                           typeName, fieldName, dataSource)
            ELSE st,
            i + 1, typeName, fieldName, dataSource)

\* return fns.sort((a, b) => a.order - b.order)
sortedFns(st) == IF Failed(st) THEN st ELSE [st EXCEPT !.ret = sortByOrder(@)]

\* loadFunctions: st.ret is the returned list
loadFunctions(st, typeName, fieldName, dataSource, folder) ==
    IF Failed(st) THEN st
    ELSE sortedFns(loadFunctionsFrom([st EXCEPT !.ret = <<>>], 1,
                                     typeName, fieldName, dataSource))

\* the wrapper files loadPipelineResolver finds for a field
wrapperFiles(typeName, fieldName) ==
    SelectSeq(resolverEntries,
              LAMBDA ent : /\ isFieldFile(ent, typeName, fieldName)
                           /\ wrapperFileFilter(ent.name))

\* new Resolver(this, `${typeName}_${fieldName}_resolver`, {dataSource, code: inline})
newDefaultPipelineResolver(st, typeName, fieldName, dataSource) ==
    NewConstruct(st,
        [id |-> defaultPipelineResolverId(typeName, fieldName), type |-> "Resolver",
         typeName |-> typeName, fieldName |-> fieldName,
         dataSource |-> dataSource, code |-> DEFAULT_PIPELINE_RESOLVER_CODE,
         kind |-> "UNIT", functions |-> <<>>,
         key |-> fieldKey(typeName, fieldName), via |-> "loadPipelineResolver",
         call |-> st.call])

\* conf = { resolver, fns: [] }
newConf(made) ==
    IF Failed(made) THEN made
    ELSE [made EXCEPT !.conf = [resolver |-> Len(made.constructs), fns |-> <<>>]]

\* the else branch of loadPipelineResolver: the resolver is created, from the
\* first wrapper file found or from the generated wrapper
createPipelineConf(st, file, typeName, fieldName, dataSource, folder) ==
    newConf(IF Len(file) > 0
            THEN createJsPipelineResolver(st, typeName, fieldName,
                                          pathJoin(folder, file[1].name))
            ELSE newDefaultPipelineResolver(st, typeName, fieldName, dataSource))

\* mutant: the resolver is created on every contribution
pipelineConf_AlwaysCreate(st, typeName, fieldName, dataSource, folder) ==
    createPipelineConf(st, wrapperFiles(typeName, fieldName),
                       typeName, fieldName, dataSource, folder)

\* the first half of loadPipelineResolver: conf is the entry of
\* this.pipelineResolvers when there is one
pipelineConf(st, typeName, fieldName, dataSource, folder) ==
    IF fieldKey(typeName, fieldName) \in DOMAIN st.pipelineResolvers
    THEN [st EXCEPT !.conf = st.pipelineResolvers[fieldKey(typeName, fieldName)]]
    ELSE createPipelineConf(st, wrapperFiles(typeName, fieldName),
                            typeName, fieldName, dataSource, folder)

\* mutant: the stages of the call replace the stages of the field
mergeFns_ReplaceStages(confFns, fns) == sortByOrder(fns)

\* mutant: the merged list is not sorted again
mergeFns_NoSort(confFns, fns) == confFns \o fns

\* conf.fns.concat(fns).sort((a, b) => a.order - b.order)
mergeFns(confFns, fns) == sortByOrder(confFns \o fns)

\* mutant: the function list is derived from conf as it was before the merge
setPipelineConfig_StaleConf(st, key) ==
    [st EXCEPT
        !.constructs[st.pipelineResolvers[key].resolver].kind = "PIPELINE",
        !.constructs[st.pipelineResolvers[key].resolver].functions =
            [n \in DOMAIN st.conf.fns |-> st.constructs[st.conf.fns[n].fn].id]]

\* node.kind = 'PIPELINE'; node.pipelineConfig = { functions: conf.fns.map(...) }
setPipelineConfig(st, key) ==
    [st EXCEPT
        !.constructs[st.pipelineResolvers[key].resolver].kind = "PIPELINE",
        !.constructs[st.pipelineResolvers[key].resolver].functions =
            [n \in DOMAIN st.pipelineResolvers[key].fns |->
                st.constructs[st.pipelineResolvers[key].fns[n].fn].id]]

\* this.pipelineResolvers[key] = { resolver: conf.resolver, fns: merged }, then
\* the resolver resource is updated
storePipeline(st, key) ==
    IF Failed(st) THEN st
    ELSE setPipelineConfig(
            [st EXCEPT !.pipelineResolvers =
                (key :> [resolver |-> st.conf.resolver,
                         fns |-> mergeFns(st.conf.fns, st.ret)]) @@ @],
            key)

loadPipelineResolver(st, typeName, fieldName, dataSource, folder) ==
    storePipeline(
        loadFunctions(pipelineConf(st, typeName, fieldName, dataSource, folder),
                      typeName, fieldName, dataSource, folder),
        fieldKey(typeName, fieldName))

\* this.unitResolvers[`${typeName}.${fieldName}`] = resolver
storeUnitResolver(made, key) ==
    IF Failed(made) THEN made
    ELSE [made EXCEPT !.unitResolvers = (key :> Len(made.constructs)) @@ @]

\* mutant: the data source named by the file is not compared
loadUnitFile_AnyDataSource(st, entry, match, dataSource) ==
    IF match.ok
    THEN storeUnitResolver(
            createJsResolver(st, dataSource, match.typeName, match.fieldName,
                             FileProps(pathJoin(entry.path, entry.name))),
            fieldKey(match.typeName, match.fieldName))
    ELSE st

\* the entry.isFile() branch of loadResolversForDataSource
loadUnitFile(st, entry, match, dataSource) ==
    IF match.ok /\ match.dataSourceName = dataSource
    THEN storeUnitResolver(
            createJsResolver(st, dataSource, match.typeName, match.fieldName,
                             FileProps(pathJoin(entry.path, entry.name))),
            fieldKey(match.typeName, match.fieldName))
    ELSE st

\* the entry.isDirectory() branch of loadResolversForDataSource
loadDirectory(st, entry, match, dataSource) ==
    IF match.ok
    THEN loadPipelineResolver(st, match.typeName, match.fieldName, dataSource,
                              pathJoin(entry.path, entry.name))
    ELSE st

\* the resolverEntries.forEach of loadResolversForDataSource, from entry i on
RECURSIVE loadResolversFrom(_, _, _)
loadResolversFrom(st, i, dataSource) ==
    IF Failed(st) \/ i > Len(resolverEntries) THEN st
    ELSE loadResolversFrom(
            IF resolverEntries[i].isDir
            THEN loadDirectory(st, resolverEntries[i], dirFilter(resolverEntries[i].name),
                               dataSource)
            ELSE loadUnitFile(st, resolverEntries[i],
                              unitFileFilter(resolverEntries[i].name), dataSource),
            i + 1, dataSource)

loadResolversForDataSource(st, dataSource) == loadResolversFrom(st, 1, dataSource)

-----------------------------------------------------------------------------
(* The directory trees the snapshot is drawn from.  Root stands for          *)
(* <baseDir>/resolvers; an entry is a Dirent: the directory it lies in, its  *)
(* name, and whether it is a directory.                                      *)

Root == <<"r">>

\* the file of the application that calls the public methods
AppFile == <<"a", "/", "s", ".", "t", "s">>

Dirent(path, name, isDir) == [path |-> path, name |-> name, isDir |-> isDir]

\* "<Type>.<field>.[<ds>].<ext>" and "<order>.<stage>.[<ds>].<ext>"
TaggedName(a, b, ds, ext) == a \o <<".">> \o b \o <<".", "[">> \o ds \o <<"]", ".">> \o ext

Dir_Q_g == pathJoin(Root, <<"Q", ".", "g">>)
Dir_QQ_g == pathJoin(Root, <<"Q", "Q", ".", "g">>)

Catalogue ==
    << Dirent(Root, <<"Q", ".", "g">>, TRUE),
       Dirent(Root, <<"Q", "Q", ".", "g">>, TRUE),
       Dirent(Root, TaggedName(<<"Q">>, <<"h">>, <<"u">>, <<"t", "s">>), FALSE),
       Dirent(Root, TaggedName(<<"Q">>, <<"h">>, <<"o">>, <<"j", "s">>), FALSE),
       Dirent(Root, TaggedName(<<"M">>, <<"k">>, <<"o">>, <<"t", "s">>), FALSE),
       Dirent(Root, TaggedName(<<"Q">>, <<"h">>, <<"u">>, <<"t", "x", "t">>), FALSE),
       Dirent(Root, TaggedName(<<"Q">>, <<"g">>, <<"o">>, <<"t", "s">>), FALSE),
       Dirent(Dir_Q_g, TaggedName(<<"1">>, <<"a">>, <<"u">>, <<"t", "s">>), FALSE),
       Dirent(Dir_Q_g, TaggedName(<<"2">>, <<"b">>, <<"u">>, <<"t", "s">>), FALSE),
       Dirent(Dir_Q_g, TaggedName(<<"1">>, <<"c">>, <<"o">>, <<"t", "s">>), FALSE),
       Dirent(Dir_Q_g, TaggedName(<<"1">>, <<"d">>, <<"u">>, <<"j", "s">>), FALSE),
       Dirent(Dir_Q_g, TaggedName(<<"3">>, <<"e">>, <<"u">>, <<"t", "x", "t">>), FALSE),
       Dirent(Dir_Q_g, TaggedName(<<"1", "0">>, <<"f">>, <<"o">>, <<"t", "s">>), FALSE),
       Dirent(Dir_Q_g, <<"r","e","s","o","l","v","e","r",".","t","s">>, FALSE),
       Dirent(Dir_QQ_g, TaggedName(<<"1">>, <<"a">>, <<"u">>, <<"t", "s">>), FALSE),
       Dirent(Dir_QQ_g, <<"r","e","s","o","l","v","e","r",".","j","s">>, FALSE) >>

\* the names data sources are registered under
DataSourceNames == {<<"u">>, <<"o">>}

\* a listing holds the directory of every entry it holds
IsListing(S) ==
    \A i \in S : \/ Catalogue[i].path = Root
                 \/ \E j \in S : /\ Catalogue[j].isDir
                                 /\ pathJoin(Catalogue[j].path, Catalogue[j].name)
                                        = Catalogue[i].path

\* fs.readdirSync(folder, {withFileTypes: true, recursive: true}): the entries of
\* S, a directory before what it holds
readdirSync(S) == SelectSeq(Catalogue, LAMBDA ent : \E i \in S : Catalogue[i] = ent)

FilesOf(entries) ==
    {pathJoin(entries[i].path, entries[i].name) : i \in {j \in DOMAIN entries : ~entries[j].isDir}}

-----------------------------------------------------------------------------
(* Bulk loading of flatly named resolver files *)

\* the name of the api (this.name)
ApiName == <<"n">>

FlatDir == <<"d">>
DefaultResolverDir == <<"a", "/", "r","e","s","o","l","v","e","r","s">>

\* the files the disk is drawn from, in the order a listing returns them
FlatCatalogue ==
    << Dirent(FlatDir, <<"Q", ".", "h", ".", "t", "s">>, FALSE),
       Dirent(FlatDir, <<"Q", ".", "h", ".", "j", "s">>, FALSE),
       Dirent(FlatDir, <<"M", ".", "k", ".", "j", "s">>, FALSE),
       Dirent(FlatDir, <<"Q", ".", "h", ".", "j", "s", "o", "n">>, FALSE),
       Dirent(FlatDir, <<"x", ".", "p", "y">>, FALSE),
       Dirent(FlatDir, <<"f", ".", "j", "s">>, FALSE),
       Dirent(DefaultResolverDir, <<"Q", ".", "h", ".", "j", "s">>, FALSE),
       Dirent(pathJoin(DefaultResolverDir, ApiName), <<"M", ".", "k", ".", "t", "s">>, FALSE) >>

\* fs.readdirSync(dir): the names of the files of dir that are on disk
listDir(dir) ==
    LET here == SelectSeq(FlatCatalogue,
                          LAMBDA ent : ent.path = dir /\ pathJoin(ent.path, ent.name) \in disk)
    IN  [n \in DOMAIN here |-> here[n].name]

\* /(\w+)\.(\w+)\.(js|ts)/ at index i
flatFilterAt(s, i) ==
    LET e1 == RunEnd(s, i, "word")
        e2 == RunEnd(s, e1 + 1, "word")
    IN  [ok |-> /\ e1 > i
                /\ CharAt(s, e1) = "."
                /\ e2 > e1 + 1
                /\ CharAt(s, e2) = "."
                /\ SubSeq(s, e2 + 1, e2 + 2) \in {<<"j", "s">>, <<"t", "s">>},
         typeName |-> SubSeq(s, i, e1 - 1),
         fieldName |-> SubSeq(s, e1 + 1, e2 - 1)]

RECURSIVE flatFilterFrom(_, _)
flatFilterFrom(s, i) ==
    IF i > Len(s) THEN [ok |-> FALSE, typeName |-> <<>>, fieldName |-> <<>>]
    ELSE LET m == flatFilterAt(s, i) IN IF m.ok THEN m ELSE flatFilterFrom(s, i + 1)

\* file.match(/(\w+)\.(\w+)\.(js|ts)/) in findResolverEntries
flatFileFilter(file) == flatFilterFrom(file, 1)

\* the directory findResolverEntries lists: resolverDir[0], or
\* <directory of the defining file>/resolvers/<this.name>
entriesDirname(resolverDir, sites) ==
    IF resolverDir # <<>> THEN resolverDir
    ELSE pathJoin(pathJoin(dirname(findDefiningFile("loadJsResolvers", sites)),
                           <<"r","e","s","o","l","v","e","r","s">>),
                  ApiName)

\* the map callback of loadJsResolvers for one name of the listing
loadFlatFile(st, dir, file, match, dataSource) ==
    IF match.ok
    THEN newResolver(st, [err |-> "none", entryFile |-> pathJoin(dir, file)],
                     dataSource, match.typeName, match.fieldName, "loadJsResolvers")
    ELSE st

\* entryFiles.map(...) of loadJsResolvers over the names readdirSync(dir) lists
RECURSIVE loadJsResolversFrom(_, _, _, _, _)
loadJsResolversFrom(st, dir, files, i, dataSource) ==
    IF Failed(st) \/ i > Len(files) THEN st
    ELSE loadJsResolversFrom(
            loadFlatFile(st, dir, files[i], flatFileFilter(files[i]), dataSource),
            dir, files, i + 1, dataSource)

\* loadJsResolvers(dataSource, {resolverFile, resolverDir})
loadJsResolvers(st, dataSource, props) ==
    IF props.file # <<>>
    THEN Throw(st, "ResolverFileNotSupported", props.file, <<>>, "loadJsResolvers")
    ELSE IF props.dir = <<>> /\ findDefiningFile("loadJsResolvers", st.sites) = <<>>
    THEN Throw(st, "AmbiguousOrigin", <<>>, <<>>, "loadJsResolvers")
    ELSE loadJsResolversFrom(st, entriesDirname(props.dir, st.sites),
                             listDir(entriesDirname(props.dir, st.sites)), 1, dataSource)

-----------------------------------------------------------------------------
(* The state machine *)

\* constructor: prepResolverDirectory takes the snapshot; the maps are empty
Init ==
    /\ \E S \in SUBSET (DOMAIN Catalogue) :
          /\ Cardinality(S) \in 1..MaxEntries
          /\ IsListing(S)
          /\ resolverEntries = readdirSync(S)
    /\ disk = FilesOf(resolverEntries)
    /\ constructs = <<>>
    /\ unitResolvers = <<>>
    /\ pipelineResolvers = <<>>
    /\ calls = <<>>

\* addNoneDataSource / addHttpDataSource / ... / addOpenSearchDataSource(id):
\* super adds the data source (named by its id), then loadResolversForDataSource
addDataSource(name) ==
    /\ Len(calls) < MaxCalls
    /\ LET st == loadResolversForDataSource(
                    [constructs |-> constructs, unitResolvers |-> unitResolvers,
                     pipelineResolvers |-> pipelineResolvers, err |-> NoError,
                     ret |-> <<>>, conf |-> <<>>, call |-> Len(calls) + 1,
                     sites |-> Frames("addDataSource", AppFile)],
                    name)
       IN  /\ constructs' = st.constructs
           /\ unitResolvers' = st.unitResolvers
           /\ pipelineResolvers' = st.pipelineResolvers
           /\ calls' = Append(calls, [ds |-> name, err |-> st.err])
    /\ UNCHANGED <<resolverEntries, disk>>

\* the environment: a file of the snapshot is deleted after the snapshot was taken
RemoveFile(file) ==
    /\ file \in disk
    /\ file \in FilesOf(resolverEntries)
    /\ Cardinality(FilesOf(resolverEntries) \ disk) < MaxDiskChanges
    /\ disk' = disk \ {file}
    /\ UNCHANGED <<resolverEntries, constructs, unitResolvers, pipelineResolvers, calls>>

\* the files that may appear in the tree after the snapshot was taken
NewFiles ==
    {pathJoin(Dir_Q_g, TaggedName(<<"2">>, <<"b">>, <<"u">>, <<"t", "s">>)),
     pathJoin(Dir_Q_g, <<"r","e","s","o","l","v","e","r",".","j","s">>)}

\* the environment: a file that the snapshot does not hold is written to the tree
AddFile(file) ==
    /\ file \notin disk
    /\ file \notin FilesOf(resolverEntries)
    /\ disk' = disk \cup {file}
    /\ UNCHANGED <<resolverEntries, constructs, unitResolvers, pipelineResolvers, calls>>

Next ==
    \/ \E name \in DataSourceNames : addDataSource(name)
    \/ \E file \in disk : RemoveFile(file)

Spec == Init /\ [][Next]_vars

\* the registrations while files are written to the tree
GrowNext ==
    \/ \E name \in DataSourceNames : addDataSource(name)
    \/ \E file \in NewFiles : AddFile(file)

GrowSpec == Init /\ [][GrowNext]_vars

-----------------------------------------------------------------------------
(* Registrations over trees of two stage files whose names are drawn from    *)
(* names the file name grammar accepts, underscores included.                *)

TypeNameSet == {<<"A">>, <<"A", "_", "b">>}
FieldNameSet == {<<"c">>, <<"b", "_", "c">>}
TagSet == {<<"u">>, <<"u", "_", "s">>}
StageNameSet == {<<"s">>, <<"s", "_", "s">>}

\* a stage: the field, the data source and the stage name
StageSet ==
    [typeName : TypeNameSet, fieldName : FieldNameSet,
     dataSourceName : TagSet, name : StageNameSet]

\* the pipeline field directory of a stage and its file, of the given order
StageDir(x) == Dirent(Root, fieldKey(x.typeName, x.fieldName), TRUE)
StageFile(x, order) ==
    Dirent(pathJoin(Root, fieldKey(x.typeName, x.fieldName)),
           TaggedName(order, x.name, x.dataSourceName, <<"t", "s">>), FALSE)

\* the listing of the tree that holds the stages x and y
StageTree(x, y) ==
    (IF StageDir(x) = StageDir(y) THEN <<StageDir(x)>> ELSE <<StageDir(x), StageDir(y)>>)
        \o <<StageFile(x, <<"1">>), StageFile(y, <<"2">>)>>

\* constructor over a tree of two different stages
NameInit ==
    /\ \E x, y \in StageSet :
          /\ x # y
          /\ resolverEntries = StageTree(x, y)
    /\ disk = FilesOf(resolverEntries)
    /\ constructs = <<>>
    /\ unitResolvers = <<>>
    /\ pipelineResolvers = <<>>
    /\ calls = <<>>

NameNext == \E name \in TagSet : addDataSource(name)

NameSpec == NameInit /\ [][NameNext]_vars

-----------------------------------------------------------------------------
(* Registrations over trees of two fields whose keys are drawn from names    *)
(* the file name grammar accepts: two unit resolver files, or two pipeline   *)
(* field directories.                                                        *)

KeyTypeSet == {<<"A">>, <<"A", "_", "b">>}
KeyFieldSet == {<<"c">>, <<"C">>, <<"b", "_", "c">>}

\* a field key: (typeName, fieldName)
KeySet == [typeName : KeyTypeSet, fieldName : KeyFieldSet]

\* the unit resolver file of field x for data source ds
UnitFile(x, ds) == Dirent(Root, TaggedName(x.typeName, x.fieldName, ds, <<"t", "s">>), FALSE)

\* the pipeline field directory of field x
FieldDir(x) == Dirent(Root, fieldKey(x.typeName, x.fieldName), TRUE)

\* constructor over a tree of two different fields
KeyInit ==
    /\ \E x, y \in KeySet :
          /\ x # y
          /\ \/ resolverEntries = <<FieldDir(x), FieldDir(y)>>
             \/ \E d, e \in DataSourceNames :
                   resolverEntries = <<UnitFile(x, d), UnitFile(y, e)>>
    /\ disk = FilesOf(resolverEntries)
    /\ constructs = <<>>
    /\ unitResolvers = <<>>
    /\ pipelineResolvers = <<>>
    /\ calls = <<>>

KeyNext == \E name \in DataSourceNames : addDataSource(name)

KeySpec == KeyInit /\ [][KeyNext]_vars

-----------------------------------------------------------------------------
(* The explicit operations: createJsResolver, createJsFunction and           *)
(* loadJsResolvers called by the application, over the files of a flat       *)
(* directory d and of the default directories next to the application file.  *)

\* the values the application passes
FieldNames == {[typeName |-> <<"Q">>, fieldName |-> <<"h">>],
               [typeName |-> <<"M">>, fieldName |-> <<"k">>]}
FunctionNames == {<<"f">>}
EntryFileOptions == {<<>>, pathJoin(FlatDir, <<"Q", ".", "h", ".", "t", "s">>),
                     pathJoin(FlatDir, <<"x", ".", "p", "y">>)}
EntryDirOptions == {<<>>, FlatDir}

ApiInit ==
    /\ resolverEntries = <<>>
    /\ \E S \in SUBSET FilesOf(FlatCatalogue) :
          /\ Cardinality(S) <= MaxFlatFiles
          /\ disk = S
    /\ constructs = <<>>
    /\ unitResolvers = <<>>
    /\ pipelineResolvers = <<>>
    /\ calls = <<>>

\* the state a public method starts from
Entering(method) ==
    [constructs |-> constructs, unitResolvers |-> unitResolvers,
     pipelineResolvers |-> pipelineResolvers, err |-> NoError,
     ret |-> <<>>, conf |-> <<>>, call |-> Len(calls) + 1,
     sites |-> Frames(method, AppFile)]

\* what a call of an explicit operation leaves: the resources and its record
Leaving(st, op, ds, typeName, fieldName, props) ==
    /\ constructs' = st.constructs
    /\ calls' = Append(calls, [op |-> op, ds |-> ds, typeName |-> typeName,
                               fieldName |-> fieldName, file |-> props.file,
                               dir |-> props.dir, err |-> st.err])
    /\ UNCHANGED <<resolverEntries, disk, unitResolvers, pipelineResolvers>>

\* api.createJsResolver(dataSource, typeName, fieldName, props)
callCreateJsResolver(ds, f, props) ==
    /\ Len(calls) < MaxApiCalls
    /\ Leaving(createJsResolver(Entering("createJsResolver"), ds,
                                f.typeName, f.fieldName, props),
               "createJsResolver", ds, f.typeName, f.fieldName, props)

\* api.createJsFunction(dataSource, name, props)
callCreateJsFunction(ds, name, props) ==
    /\ Len(calls) < MaxApiCalls
    /\ Leaving(createJsFunction(Entering("createJsFunction"), ds, name, props, <<>>),
               "createJsFunction", ds, <<>>, name, props)

\* api.loadJsResolvers(dataSource, props)
callLoadJsResolvers(ds, props) ==
    /\ Len(calls) < MaxApiCalls
    /\ Leaving(loadJsResolvers(Entering("loadJsResolvers"), ds, props),
               "loadJsResolvers", ds, <<>>, <<>>, props)

ApiNext ==
    \/ \E ds \in DataSourceNames, f \in FieldNames,
          file \in EntryFileOptions, dir \in EntryDirOptions :
            callCreateJsResolver(ds, f, [file |-> file, dir |-> dir])
    \/ \E ds \in DataSourceNames, name \in FunctionNames,
          file \in EntryFileOptions, dir \in EntryDirOptions :
            callCreateJsFunction(ds, name, [file |-> file, dir |-> dir])
    \/ \E ds \in DataSourceNames, file \in EntryFileOptions, dir \in EntryDirOptions :
            callLoadJsResolvers(ds, [file |-> file, dir |-> dir])

ApiSpec == ApiInit /\ [][ApiNext]_vars

-----------------------------------------------------------------------------
(* Properties *)

Last(s) == s[Len(s)]

Returned(c) == calls[c].err.kind = "none"

\* the file a stage function or resolver was bundled from
SourceFile(h) == constructs[h].code.src

\* the place of a file in the snapshot (discovery order)
EntryIndex(file) ==
    CHOOSE n \in DOMAIN resolverEntries :
        pathJoin(resolverEntries[n].path, resolverEntries[n].name) = file

Stages(k) == pipelineResolvers[k].fns

\* C1: in every reachable state, the stage list of every pipeline field key is
\* sorted ascending by the numeric value of order.
C1_StagesSortedByOrder ==
    \A k \in DOMAIN pipelineResolvers :
        \A i, j \in DOMAIN Stages(k) :
            i < j => Stages(k)[i].order <= Stages(k)[j].order

\* a stage contributed by a later call stands before a stage of an earlier call
C1_Witness ==
    \E k \in DOMAIN pipelineResolvers :
        \E i, j \in DOMAIN Stages(k) :
            /\ i < j
            /\ Stages(k)[i].order < Stages(k)[j].order
            /\ constructs[Stages(k)[i].fn].call > constructs[Stages(k)[j].fn].call

\* C2: stages of one field with equal order keep their insertion order: the stage
\* of the earlier call first, and stages of one call in snapshot order.
C2_EqualOrderKeepsInsertionOrder ==
    \A k \in DOMAIN pipelineResolvers :
        \A i, j \in DOMAIN Stages(k) :
            (i < j /\ Stages(k)[i].order = Stages(k)[j].order) =>
                \/ constructs[Stages(k)[i].fn].call < constructs[Stages(k)[j].fn].call
                \/ /\ constructs[Stages(k)[i].fn].call = constructs[Stages(k)[j].fn].call
                   /\ EntryIndex(SourceFile(Stages(k)[i].fn))
                        < EntryIndex(SourceFile(Stages(k)[j].fn))

\* two stages of equal order from two calls, the one of the earlier call first
\* although the snapshot lists it last
C2_Witness ==
    \E k \in DOMAIN pipelineResolvers :
        \E i, j \in DOMAIN Stages(k) :
            /\ i < j
            /\ Stages(k)[i].order = Stages(k)[j].order
            /\ constructs[Stages(k)[i].fn].call < constructs[Stages(k)[j].fn].call
            /\ EntryIndex(SourceFile(Stages(k)[i].fn))
                 > EntryIndex(SourceFile(Stages(k)[j].fn))

\* the pipeline resolver resources created for field key k
PipelineResolversOf(cs, k) ==
    {h \in DOMAIN cs : /\ cs[h].type = "Resolver"
                       /\ cs[h].key = k
                       /\ cs[h].via \in {"loadPipelineResolver", "createJsPipelineResolver"}}

PipelineKeys == {fieldKey(dirFilter(resolverEntries[n].name).typeName,
                          dirFilter(resolverEntries[n].name).fieldName) :
                    n \in {m \in DOMAIN resolverEntries : resolverEntries[m].isDir}}

\* C3: for every field key the pipeline resolver resource is created at most once;
\* it is created by the call that makes the field Active, and every later
\* contribution keeps that handle and neither creates nor tries to create a
\* resolver for the field.
C3_ResolverCreatedOnce ==
    [][ \A k \in PipelineKeys :
          /\ Cardinality(PipelineResolversOf(constructs', k)) <= 1
          /\ (k \in DOMAIN pipelineResolvers' /\ k \notin DOMAIN pipelineResolvers) =>
                /\ pipelineResolvers'[k].resolver \in PipelineResolversOf(constructs', k)
                /\ pipelineResolvers'[k].resolver \notin DOMAIN constructs
          /\ k \in DOMAIN pipelineResolvers =>
                /\ k \in DOMAIN pipelineResolvers'
                /\ pipelineResolvers'[k].resolver = pipelineResolvers[k].resolver
                /\ PipelineResolversOf(constructs', k) = PipelineResolversOf(constructs, k)
                /\ constructs'[pipelineResolvers[k].resolver].id
                     = constructs[pipelineResolvers[k].resolver].id
                /\ constructs'[pipelineResolvers[k].resolver].code
                     = constructs[pipelineResolvers[k].resolver].code
                /\ (Len(calls') > Len(calls) /\ Last(calls').err.key = k) =>
                      Last(calls').err.via
                        \notin {"loadPipelineResolver", "createJsPipelineResolver"}
      ]_vars

\* the same data source was registered twice, both calls returned, and the field
\* holds the resolver the first call created
C3_Witness ==
    /\ Len(calls) = 2
    /\ Returned(1) /\ Returned(2)
    /\ calls[1].ds = calls[2].ds
    /\ \E k \in DOMAIN pipelineResolvers :
          /\ constructs[pipelineResolvers[k].resolver].call = 1
          /\ PipelineResolversOf(constructs, k) = {pipelineResolvers[k].resolver}

-----------------------------------------------------------------------------
(* The file name grammar of the specification, anchored, for stating what    *)
(* a claim says about a file "named" by the grammar.                         *)

SourceExtensions == {<<"t", "s">>, <<"j", "s">>}

EntryFile(n) == pathJoin(resolverEntries[n].path, resolverEntries[n].name)

FileEntries == {n \in DOMAIN resolverEntries : ~resolverEntries[n].isDir}

\* the entry lies in the directory named k itself
InOwnDirectory(n, k) == endsWith(resolverEntries[n].path, <<"/">> \o k)

\* the name is exactly NNN.stage.[D].ts|js
IsStageFileOf(name, D) ==
    /\ stageFilterAt(name, 1).ok
    /\ stageFilterAt(name, 1).dataSourceName = D
    /\ \E ext \in SourceExtensions :
          name = TaggedName(stageFilterAt(name, 1).order, stageFilterAt(name, 1).name, D, ext)

\* the name is exactly Type.field.[D].ts|js
IsUnitFileOf(name, D) ==
    /\ unitFilterAt(name, 1).ok
    /\ unitFilterAt(name, 1).dataSourceName = D
    /\ \E ext \in SourceExtensions :
          name = TaggedName(unitFilterAt(name, 1).typeName,
                            unitFilterAt(name, 1).fieldName, D, ext)

\* the name is exactly resolver.ts|js
IsWrapperFile(name) == \E ext \in SourceExtensions : name = ResolverDot \o ext

Registered == {calls[c].ds : c \in DOMAIN calls}

\* the stage files loadFunctions reads for field k and the data sources in names
FieldStageFiles(k, names) ==
    {n \in FileEntries :
        /\ endsWith(resolverEntries[n].path, k)
        /\ stageFileFilter(resolverEntries[n].name).ok
        /\ stageFileFilter(resolverEntries[n].name).dataSourceName \in names}

AllTags == {stageFileFilter(resolverEntries[n].name).dataSourceName : n \in FileEntries}

\* the stage files of field k have pairwise distinct order values
DistinctOrders(k) ==
    \A m, n \in FieldStageFiles(k, AllTags) :
        m # n => parseInt(stageFileFilter(resolverEntries[m].name).order)
                   # parseInt(stageFileFilter(resolverEntries[n].name).order)

\* C4: when the stage files of a field have pairwise distinct order values, the
\* stage list of the field is the same for every permutation of the registrations:
\* once each of a set of data sources has been registered (each once, every call
\* returning), the list holds exactly the stage files of those data sources, each
\* once, in strictly ascending order, which leaves one list whatever the order of
\* the calls was.
C4_StageListIndependentOfRegistrationOrder ==
    \A k \in DOMAIN pipelineResolvers :
        ( /\ \A c \in DOMAIN calls : Returned(c)
          /\ \A c, d \in DOMAIN calls : c # d => calls[c].ds # calls[d].ds
          /\ DistinctOrders(k) ) =>
            /\ {SourceFile(Stages(k)[i].fn) : i \in DOMAIN Stages(k)}
                 = {EntryFile(n) : n \in FieldStageFiles(k, Registered)}
            /\ Len(Stages(k)) = Cardinality(FieldStageFiles(k, Registered))
            /\ \A i, j \in DOMAIN Stages(k) :
                  i < j => Stages(k)[i].order < Stages(k)[j].order

\* two data sources were registered, each contributed a stage to one field, and
\* the stage of the second call stands first
C4_Witness ==
    /\ Len(calls) = 2
    /\ Returned(1) /\ Returned(2)
    /\ calls[1].ds # calls[2].ds
    /\ \E k \in DOMAIN pipelineResolvers :
          /\ DistinctOrders(k)
          /\ Len(Stages(k)) >= 2
          /\ constructs[Stages(k)[1].fn].call = 2
          /\ \E j \in DOMAIN Stages(k) : constructs[Stages(k)[j].fn].call = 1

\* C5: a registration of data source D that returns adds to the pipeline of field
\* Type.field exactly one stage for each file NNN.stage.[D].ts|js of the field's
\* own directory Type.field/, and nothing else.
C5_StagesExactlyFromOwnDirectory ==
    (calls # <<>> /\ Returned(Len(calls))) =>
        \A k \in DOMAIN pipelineResolvers :
            LET added == {i \in DOMAIN Stages(k) :
                            constructs[Stages(k)[i].fn].call = Len(calls)}
                own == {n \in FileEntries :
                            /\ InOwnDirectory(n, k)
                            /\ IsStageFileOf(resolverEntries[n].name, Last(calls).ds)}
            IN  /\ {SourceFile(Stages(k)[i].fn) : i \in added} = {EntryFile(n) : n \in own}
                /\ Cardinality(added) = Cardinality(own)

\* the snapshot holds no directory the directory filter matches
NoPipelineDirectory ==
    \A n \in DOMAIN resolverEntries :
        resolverEntries[n].isDir => ~dirFilter(resolverEntries[n].name).ok

\* the unit resolvers the last call created
UnitResolversOfLastCall ==
    {h \in DOMAIN constructs : /\ constructs[h].call = Len(calls)
                               /\ constructs[h].via = "createJsResolver"}

\* C6: a registration of data source D that returns has created one unit resolver
\* for each snapshot file named Type.field.[D].ts|js, and none for a file tagged
\* with another data source; when the snapshot holds no pipeline field directory,
\* the pipeline map stays empty.
C6_UnitResolversPerDataSource ==
    /\ NoPipelineDirectory => pipelineResolvers = <<>>
    /\ (calls # <<>> /\ Returned(Len(calls))) =>
          /\ \A n \in FileEntries :
                IsUnitFileOf(resolverEntries[n].name, Last(calls).ds) =>
                    /\ Cardinality({h \in UnitResolversOfLastCall :
                                        SourceFile(h) = EntryFile(n)}) = 1
                    /\ \A h \in UnitResolversOfLastCall :
                          SourceFile(h) = EntryFile(n) =>
                            /\ constructs[h].dataSource = Last(calls).ds
                            /\ constructs[h].key
                                 = fieldKey(unitFilterAt(resolverEntries[n].name, 1).typeName,
                                            unitFilterAt(resolverEntries[n].name, 1).fieldName)
                            /\ constructs[h].kind = "UNIT"
                            /\ constructs[h].key \in DOMAIN unitResolvers
          /\ \A h \in UnitResolversOfLastCall :
                \E n \in FileEntries :
                    /\ SourceFile(h) = EntryFile(n)
                    /\ unitFileFilter(resolverEntries[n].name).dataSourceName
                         = Last(calls).ds

\* two data sources were registered over a snapshot without directories, each has
\* its own unit resolver, and there is no pipeline state
C6_Witness ==
    /\ Len(calls) = 2
    /\ Returned(1) /\ Returned(2)
    /\ NoPipelineDirectory
    /\ pipelineResolvers = <<>>
    /\ \E k1, k2 \in DOMAIN unitResolvers :
          /\ k1 # k2
          /\ constructs[unitResolvers[k1]].call = 1
          /\ constructs[unitResolvers[k2]].call = 2
          /\ constructs[unitResolvers[k1]].dataSource
               # constructs[unitResolvers[k2]].dataSource

\* C7: a snapshot file whose extension is not .ts or .js is ignored: no resource
\* is created from it and no registration raises an error about it.
C7_UnrecognizedExtensionIgnored ==
    \A n \in FileEntries :
        ~hasSourceExtension(resolverEntries[n].name) =>
            /\ \A h \in DOMAIN constructs : SourceFile(h) # EntryFile(n)
            /\ \A c \in DOMAIN calls : calls[c].err.at # EntryFile(n)

\* the unit resolver files loadResolversForDataSource matches for data source D
UnitMatches(D) ==
    {n \in FileEntries : /\ unitFileFilter(resolverEntries[n].name).ok
                         /\ unitFileFilter(resolverEntries[n].name).dataSourceName = D}

UnitKey(n) == fieldKey(unitFileFilter(resolverEntries[n].name).typeName,
                       unitFileFilter(resolverEntries[n].name).fieldName)

\* C8: a unit resolver file that matches a field key for which a unit resolver was
\* already created is rejected with an error: a call that met such a match does
\* not return, and no entry of the unit resolver map is ever overwritten.
C8_DuplicateUnitResolverRejected ==
    [][ /\ \A k \in DOMAIN unitResolvers :
              k \in DOMAIN unitResolvers' /\ unitResolvers'[k] = unitResolvers[k]
        /\ (Len(calls') > Len(calls) /\ Last(calls').err.kind = "none") =>
              \A n \in UnitMatches(Last(calls').ds) :
                  /\ UnitKey(n) \notin DOMAIN unitResolvers
                  /\ \A m \in UnitMatches(Last(calls').ds) :
                        m # n => UnitKey(m) # UnitKey(n)
      ]_vars

\* a second data source claimed a field that has a unit resolver of another data
\* source: the call was rejected and the entry still is the first resolver
C8_Witness ==
    /\ Len(calls) = 2
    /\ Returned(1)
    /\ Last(calls).err.kind = "DuplicateConstruct"
    /\ Last(calls).err.via = "createJsResolver"
    /\ Last(calls).err.key \in DOMAIN unitResolvers
    /\ constructs[unitResolvers[Last(calls).err.key]].call = 1
    /\ constructs[unitResolvers[Last(calls).err.key]].dataSource # Last(calls).ds

\* C9: when a registration call fails while contributing to a pipeline field,
\* nothing the call made for that field remains: no resolver resource and no
\* stage function.
C9_FailedContributionLeavesNothing ==
    ( /\ calls # <<>>
      /\ ~Returned(Len(calls))
      /\ Last(calls).err.via
           \in {"loadPipelineResolver", "createJsPipelineResolver", "createJsFunction"} ) =>
        \A h \in DOMAIN constructs :
            ~(constructs[h].call = Len(calls) /\ constructs[h].key = Last(calls).err.key)

\* the explicit wrapper files of the own directory of field k
OwnWrappers(k) ==
    {n \in FileEntries : InOwnDirectory(n, k) /\ IsWrapperFile(resolverEntries[n].name)}

\* C10: on the first contribution the pipeline resolver of a field is created with
\* the code of the wrapper file resolver.ts|js of the field's directory when there
\* is one, and with the generated pass-through wrapper otherwise: a field without a
\* wrapper file never fails at the wrapper, and an Active field holds that code.
C10_WrapperExplicitOrGenerated ==
    /\ \A k \in DOMAIN pipelineResolvers :
          IF OwnWrappers(k) # {}
          THEN SourceFile(pipelineResolvers[k].resolver)
                  \in {EntryFile(n) : n \in OwnWrappers(k)}
          ELSE constructs[pipelineResolvers[k].resolver].code
                  = DEFAULT_PIPELINE_RESOLVER_CODE
    /\ \A c \in DOMAIN calls :
          calls[c].err.via = "createJsPipelineResolver" => OwnWrappers(calls[c].err.key) # {}

\* every resolver and function was bundled from a file of the snapshot
OnlySnapshotFiles ==
    \A h \in DOMAIN constructs :
        constructs[h].code.kind = "asset" => SourceFile(h) \in FilesOf(resolverEntries)

\* C14: the snapshot is taken once at construction and no registration changes
\* it; a file written to the disk after construction is never discovered: every
\* resource a registration creates comes from an entry of the snapshot.
C14_SnapshotTakenOnce ==
    /\ [][resolverEntries' = resolverEntries]_vars
    /\ []OnlySnapshotFiles

\* C17: pipeline state only grows: a registration leaves every Active field key
\* Active, and every stage of its list is still in the list after the call (the
\* list never gets shorter and no stage is removed or replaced).
C17_PipelineStateOnlyGrows ==
    [][ \A k \in DOMAIN pipelineResolvers :
          /\ k \in DOMAIN pipelineResolvers'
          /\ Len(pipelineResolvers'[k].fns) >= Len(Stages(k))
          /\ \A i \in DOMAIN Stages(k) :
                /\ \E j \in DOMAIN pipelineResolvers'[k].fns :
                      pipelineResolvers'[k].fns[j] = Stages(k)[i]
                /\ constructs'[Stages(k)[i].fn] = constructs[Stages(k)[i].fn]
      ]_vars

\* a second registration added a stage to a field that held a stage of the
\* first registration, which is still there
C17_Witness ==
    /\ Len(calls) = 2
    /\ Returned(2)
    /\ \E k \in DOMAIN pipelineResolvers :
          /\ \E i \in DOMAIN Stages(k) : constructs[Stages(k)[i].fn].call = 1
          /\ \E j \in DOMAIN Stages(k) : constructs[Stages(k)[j].fn].call = 2

\* C18: for every Active field key the resolver resource is of kind PIPELINE and
\* its function list is, element for element and in the same order, the function
\* ids of the stage list of the field.
C18_ResourceMatchesStageList ==
    \A k \in DOMAIN pipelineResolvers :
        /\ constructs[pipelineResolvers[k].resolver].type = "Resolver"
        /\ constructs[pipelineResolvers[k].resolver].kind = "PIPELINE"
        /\ Len(constructs[pipelineResolvers[k].resolver].functions) = Len(Stages(k))
        /\ \A n \in DOMAIN Stages(k) :
              constructs[pipelineResolvers[k].resolver].functions[n]
                = constructs[Stages(k)[n].fn].id

\* after two registrations the resource of a field lists the function of the
\* second call before the function of the first call
C18_Witness ==
    /\ Len(calls) = 2
    /\ Returned(1) /\ Returned(2)
    /\ \E k \in DOMAIN pipelineResolvers :
          /\ Len(constructs[pipelineResolvers[k].resolver].functions) >= 2
          /\ \E i, j \in DOMAIN Stages(k) :
                /\ i < j
                /\ constructs[Stages(k)[i].fn].call = 2
                /\ constructs[Stages(k)[j].fn].call = 1
                /\ constructs[pipelineResolvers[k].resolver].functions[i]
                     = constructs[Stages(k)[i].fn].id

\* the field keys of the pipeline field directories of the snapshot
PipelineFieldKeys ==
    {fieldKey(dirFilter(resolverEntries[n].name).typeName,
              dirFilter(resolverEntries[n].name).fieldName) :
        n \in {m \in DOMAIN resolverEntries :
                 resolverEntries[m].isDir /\ dirFilter(resolverEntries[m].name).ok}}

\* the stage files of data source D in the own directory of field k
OwnStageFiles(k, D) ==
    {n \in FileEntries : InOwnDirectory(n, k) /\ IsStageFileOf(resolverEntries[n].name, D)}

\* C19: every pipeline field directory is processed by a registration whatever
\* the data source: once a registration has returned, every pipeline field
\* directory is Active with a resolver, and after a first registration that
\* returned, a field whose directory holds no stage file of that data source has
\* an empty stage list.
C19_EveryDirectoryProcessed ==
    /\ (\E c \in DOMAIN calls : Returned(c)) =>
          \A k \in PipelineFieldKeys :
              /\ k \in DOMAIN pipelineResolvers
              /\ pipelineResolvers[k].resolver \in PipelineResolversOf(constructs, k)
    /\ (Len(calls) = 1 /\ Returned(1)) =>
          \A k \in PipelineFieldKeys :
              (k \in DOMAIN pipelineResolvers /\ OwnStageFiles(k, calls[1].ds) = {})
                  => Stages(k) = <<>>

\* C20: a field key is served by a unit resolver or by a pipeline resolver, never
\* by both: no field key has an entry in both maps.
C20_UnitOrPipelineNeverBoth ==
    \A k \in DOMAIN unitResolvers : k \notin DOMAIN pipelineResolvers

\* C15: stage function identifiers are unique: two stages that differ in type
\* name, field name, data source name or stage name never get the same
\* identifier, so the function of a stage is refused as a duplicate only when
\* the same data source was registered before and the same stage is made again.
C15_StageIdsUnique ==
    \A c \in DOMAIN calls :
        (calls[c].err.kind = "DuplicateConstruct" /\ calls[c].err.via = "createJsFunction")
            => \E b \in 1..(c - 1) : calls[b].ds = calls[c].ds

\* C21: resolver identifiers are collision-free across field keys: two different
\* field keys never get the same unit resolver identifier nor the same default
\* pipeline resolver identifier, so a resolver is refused as a duplicate only
\* when the resolver that holds the identifier belongs to the same field key.
C21_ResolverIdsCollisionFree ==
    \A c \in DOMAIN calls :
        ( /\ calls[c].err.kind = "DuplicateConstruct"
          /\ calls[c].err.via \in {"createJsResolver", "loadPipelineResolver"} ) =>
            \A h \in DOMAIN constructs :
                constructs[h].id = calls[c].err.at => constructs[h].key = calls[c].err.key

-----------------------------------------------------------------------------
(* Properties of the explicit operations (ApiSpec) *)

ConstructsOfCall(c) == {h \in DOMAIN constructs : constructs[h].call = c}

CreateCalls ==
    {c \in DOMAIN calls : calls[c].op \in {"createJsResolver", "createJsFunction"}}

\* sub occurs in s
Contains(s, sub) ==
    \E i \in 1..(Len(s) - Len(sub) + 1) : SubSeq(s, i, i + Len(sub) - 1) = sub

\* C11: for an explicit entry file passed to createJsResolver or createJsFunction
\* (and no entry directory), the extension is checked before the file is looked
\* up: a path that does not end in .ts or .js raises InvalidExtension whether or
\* not the file exists, and FileNotFound is raised exactly for a path with a
\* recognized extension that does not exist.
C11_ExtensionCheckedBeforeExistence ==
    \A c \in CreateCalls :
        (calls[c].file # <<>> /\ calls[c].dir = <<>>) =>
            /\ (\A ext \in SourceExtensions : ~endsWith(calls[c].file, <<".">> \o ext))
                  => calls[c].err.kind = "InvalidExtension"
            /\ calls[c].err.kind = "FileNotFound"
                  <=> /\ \E ext \in SourceExtensions : endsWith(calls[c].file, <<".">> \o ext)
                      /\ calls[c].file \notin disk

\* createJsResolver was given a .py file that does not exist and raised
\* InvalidExtension about it
C11_Witness ==
    /\ \E c \in CreateCalls :
          /\ calls[c].op = "createJsResolver"
          /\ calls[c].file = pathJoin(FlatDir, <<"x", ".", "p", "y">>)
          /\ calls[c].dir = <<>>
          /\ calls[c].file \notin disk
          /\ calls[c].err.kind = "InvalidExtension"
          /\ calls[c].err.at = calls[c].file

\* C12: when both an entry file and an entry directory are given to
\* createJsResolver or createJsFunction, ConflictingOptions is raised whatever the
\* file is (no lookup decides the outcome) and the call creates no resource.
C12_ConflictingOptionsCreatesNothing ==
    \A c \in CreateCalls :
        (calls[c].file # <<>> /\ calls[c].dir # <<>>) =>
            /\ calls[c].err.kind = "ConflictingOptions"
            /\ ConstructsOfCall(c) = {}

\* both options were given with a file that exists and has a recognized
\* extension, and the call raised ConflictingOptions
C12_Witness ==
    \E c \in CreateCalls :
        /\ calls[c].op = "createJsResolver"
        /\ calls[c].file \in disk
        /\ \E ext \in SourceExtensions : endsWith(calls[c].file, <<".">> \o ext)
        /\ calls[c].dir # <<>>
        /\ calls[c].err.kind = "ConflictingOptions"
        /\ constructs = <<>>

\* the directory createJsResolver looks in when no entry file is given
LookupDir(c) == IF calls[c].dir # <<>> THEN calls[c].dir ELSE DefaultResolverDir

LookupFile(c, ext) ==
    LookupDir(c) \o <<"/">> \o calls[c].typeName \o <<".">> \o calls[c].fieldName
        \o <<".">> \o ext

\* the call created one resolver, from the file
CreatedFrom(c, file) ==
    /\ Cardinality(ConstructsOfCall(c)) = 1
    /\ \A h \in ConstructsOfCall(c) : SourceFile(h) = file

\* C13: createJsResolver resolves the entry in a fixed order: the explicit file
\* when one is given; otherwise <dir>/<Type>.<field>.ts when it exists; otherwise
\* <dir>/<Type>.<field>.js when it exists; otherwise an error that names both
\* paths.  When both files exist the .ts file is the entry.  (A call whose
\* resolver id is already taken fails after the entry was resolved.)
C13_EntryResolutionOrder ==
    \A c \in DOMAIN calls :
        ( /\ calls[c].op = "createJsResolver"
          /\ ~(calls[c].file # <<>> /\ calls[c].dir # <<>>)
          /\ calls[c].err.kind # "DuplicateConstruct" ) =>
            IF calls[c].file # <<>>
            THEN calls[c].err.kind = "none" => CreatedFrom(c, calls[c].file)
            ELSE IF LookupFile(c, <<"t", "s">>) \in disk
            THEN calls[c].err.kind = "none" /\ CreatedFrom(c, LookupFile(c, <<"t", "s">>))
            ELSE IF LookupFile(c, <<"j", "s">>) \in disk
            THEN calls[c].err.kind = "none" /\ CreatedFrom(c, LookupFile(c, <<"j", "s">>))
            ELSE /\ calls[c].err.kind = "EntryNotFound"
                 /\ Contains(calls[c].err.at, LookupFile(c, <<"t", "s">>))
                 /\ Contains(calls[c].err.at, LookupFile(c, <<"j", "s">>))
                 /\ ConstructsOfCall(c) = {}

\* the directory holds both the .ts and the .js file of the field and the
\* resolver was created from the .ts file
C13_Witness ==
    \E c \in DOMAIN calls :
        /\ calls[c].op = "createJsResolver"
        /\ calls[c].file = <<>>
        /\ calls[c].dir # <<>>
        /\ LookupFile(c, <<"t", "s">>) \in disk
        /\ LookupFile(c, <<"j", "s">>) \in disk
        /\ CreatedFrom(c, LookupFile(c, <<"t", "s">>))

\* the directory loadJsResolvers scans
ScannedDir(c) ==
    IF calls[c].dir # <<>> THEN calls[c].dir ELSE pathJoin(DefaultResolverDir, ApiName)

\* the files of the scanned directory named exactly Type.field.ts|js
FlatResolverFiles(c) ==
    {pathJoin(FlatCatalogue[n].path, FlatCatalogue[n].name) :
        n \in {m \in DOMAIN FlatCatalogue :
                 /\ FlatCatalogue[m].path = ScannedDir(c)
                 /\ pathJoin(FlatCatalogue[m].path, FlatCatalogue[m].name) \in disk
                 /\ flatFilterAt(FlatCatalogue[m].name, 1).ok
                 /\ \E ext \in SourceExtensions :
                       FlatCatalogue[m].name
                         = fieldKey(flatFilterAt(FlatCatalogue[m].name, 1).typeName,
                                    flatFilterAt(FlatCatalogue[m].name, 1).fieldName)
                             \o <<".">> \o ext}}

\* C16: loadJsResolvers creates a unit resolver only from a file of the scanned
\* directory named Type.field.ts or Type.field.js, exactly one for each such file
\* when it returns; given an explicit entry file it raises an error and creates
\* no resolver.
C16_LoadCreatesOnePerFlatFile ==
    \A c \in DOMAIN calls :
        calls[c].op = "loadJsResolvers" =>
            IF calls[c].file # <<>>
            THEN calls[c].err.kind # "none" /\ ConstructsOfCall(c) = {}
            ELSE /\ \A h \in ConstructsOfCall(c) : SourceFile(h) \in FlatResolverFiles(c)
                 /\ calls[c].err.kind = "none" =>
                       \A file \in FlatResolverFiles(c) :
                           Cardinality({h \in ConstructsOfCall(c) : SourceFile(h) = file}) = 1

====
